---- MODULE Spec2Model ----
(***************************************************************************)
(* The agent tool-orchestration loop of Platinium Research:               *)
(* AgentOrchestrator.sendMessage and AgentOrchestrator._retryRequest       *)
(* (services/agent/orchestrator.ts) with the tool executors of            *)
(* services/agent/tools.ts that the turn loop dispatches to.              *)
(*                                                                         *)
(* Strings the code builds by concatenation are sequences of fragments:    *)
(* "" is << >>, `Error executing tool: ${m}` is                            *)
(* <<"Error executing tool: ", m>>.  A JavaScript object with optional     *)
(* fields is a record whose DOMAIN holds the fields that are present.      *)
(***************************************************************************)
EXTENDS Integers, Sequences, FiniteSets, TLC

(* ------------------------------ bounds -------------------------------- *)

\* Most function calls the model puts in one response.
MaxCalls == 2

\* Most words of the vocabulary that occur together in one user text.
MaxWords == 2

\* Most calls of handleSendMessage followed through one session of the view.
MaxTurns == 2

(* ------------------------- program constants -------------------------- *)

MAX_LOOPS == 15

\* _retryRequest(fn, retries = 3)
DefaultRetries == 3

\* const delay = 2000 * Math.pow(2, i)
BaseDelayMs == 2000

TOOL_REGISTRY ==
  { "searchWeb", "updateDraft", "deepReason", "analyzeImage", "generateImage",
    "generateCanvas", "searchYouTube", "readWebPage", "readProjectContext",
    "citeSources", "manageTables" }

RECURSIVE Pow2(_)
Pow2(n) == IF n = 0 THEN 1 ELSE 2 * Pow2(n - 1)

(* ------------------------------ values -------------------------------- *)

\* An args object is the ordered list of its <<field, value>> pairs.
HasField(args, f) == \E k \in 1..Len(args) : args[k][1] = f

Field(args, f) == args[CHOOSE k \in 1..Len(args) : args[k][1] = f][2]

\* JSON.stringify(toolArgs): the fields and values in the object's own order.
RECURSIVE JSONStringify(_)
JSONStringify(args) ==
  IF args = << >> THEN << >>
  ELSE <<args[1][1], args[1][2]>> \o JSONStringify(Tail(args))

\* const cacheKey = `${toolName}:${JSON.stringify(toolArgs)}`
CacheKey(call) == <<call.name, ":">> \o JSONStringify(call.args)

\* A string literal of the model: '' is the empty string, any other literal
\* is one fragment.
Str(s) == IF s = "" THEN << >> ELSE <<s>>

\* String.prototype.toLowerCase, on the table names the model uses.
ToLowerCase(s) == IF s = "Results" THEN "results" ELSE s

\* The draft of the context the Orchestrator was constructed with.
ContextDraft == <<"intro", "body">>

\* Its canvas and its tables.
ContextCanvas == [nodes |-> <<[items |-> "outline", x |-> 0, y |-> 0]>>, edges |-> << >>]

ContextTables == << [name |-> "Baseline", headers |-> "metric", rows |-> << >>] >>

\* The AgentContext given to the constructor (this.context), enabledTools
\* apart: the caller has chosen prompt-only image generation and the Imagen
\* model in its settings.
Context ==
  [projectId           |-> "project-1",
   assetsFolderId      |-> "assets-1",
   draftContent        |-> ContextDraft,
   canvasData          |-> ContextCanvas,
   tables              |-> ContextTables,
   customSources       |-> << >>,
   currentBrowserUrl   |-> "https://example.org",
   imageModel          |-> "imagen-4.0-generate-001",
   imageGenerationMode |-> "prompt_only"]

\* String.prototype.includes on a draft, for a segment the size of a fragment.
Includes(draft, seg) == \E k \in 1..Len(draft) : draft[k] = seg

\* String.prototype.replace(search, content): the first occurrence only.
ReplaceFirst(draft, seg, content) ==
  LET k == CHOOSE j \in 1..Len(draft) :
             draft[j] = seg /\ \A h \in 1..(j - 1) : draft[h] # seg
  IN  SubSeq(draft, 1, k - 1) \o Str(content) \o SubSeq(draft, k + 1, Len(draft))

(* --------------------------- tool executors --------------------------- *)

Return(v) == [kind |-> "return", value |-> v]

Throw(m) == [kind |-> "throw", message |-> m]

\* Mutant: a patch whose search_text is not found overwrites the draft.
UpdateDraftExecuteOverwritingOnMiss(args, context) ==
  LET mode    == Field(args, "mode")
      content == Field(args, "content")
  IN  IF /\ mode = "patch" /\ HasField(args, "search_text")
         /\ Field(args, "search_text") # ""
         /\ Includes(context.draftContent, Field(args, "search_text"))
      THEN { Return([text |-> <<"Draft updated successfully (", mode, " mode).">>,
                     meta |-> [content |->
                        ReplaceFirst(context.draftContent,
                                     Field(args, "search_text"), content)]]) }
      ELSE { Return([text |-> <<"Draft updated successfully (", mode, " mode).">>,
                     meta |-> [content |-> Str(content)]]) }

\* updateDraftTool.execute
UpdateDraftExecute(args, context) ==
  LET mode    == Field(args, "mode")
      content == Field(args, "content")
  IN  IF mode = "patch" /\ HasField(args, "search_text") /\ Field(args, "search_text") # ""
      THEN IF Includes(context.draftContent, Field(args, "search_text"))
           THEN { Return([text |-> <<"Draft updated successfully (", mode, " mode).">>,
                          meta |-> [content |->
                             ReplaceFirst(context.draftContent,
                                          Field(args, "search_text"), content)]]) }
           ELSE { Return([text |-> <<"Error: Could not find the exact text segment to patch.">>]) }
      ELSE { Return([text |-> <<"Draft updated successfully (", mode, " mode).">>,
                     meta |-> [content |-> Str(content)]]) }

\* searchTool.execute: performWebSearch answers with whatever the live web
\* holds at that moment, or fails.
SearchWebExecute(args, context) ==
  { Return([text |-> <<"results A">>, meta |-> [sources |-> "A"]]),
    Return([text |-> <<"results B">>, meta |-> [sources |-> "B"]]),
    Throw("fetch failed") }

\* generateCanvasTool.execute: the nodes at x = 0, y = 0 and the edges, each
\* array argument standing as one value.
GenerateCanvasExecute(args, context) ==
  LET data == [nodes |-> <<[items |-> Field(args, "nodes"), x |-> 0, y |-> 0]>>,
               edges |-> <<Field(args, "edges")>>]
  IN  { Return([text |-> <<"Canvas updated with ", Field(args, "nodes"), " nodes and ",
                           Field(args, "edges"), " edges about: ",
                           Field(args, "topic_summary")>>,
                meta |-> [canvasData |-> data]]) }

\* tables.findIndex(t => t.name.toLowerCase() === tableName.toLowerCase())
FindTable(tables, tableName) ==
  LET hits == { k \in 1..Len(tables) :
                  ToLowerCase(tables[k].name) = ToLowerCase(tableName) }
  IN  IF hits = {} THEN 0 ELSE CHOOSE k \in hits : \A h \in hits : k <= h

\* manageTablesTool.execute (the id `table-${Date.now()}` of a new table is
\* left out: nothing reads it).
ManageTablesExecute(args, context) ==
  LET action    == Field(args, "action")
      tableName == Field(args, "tableName")
      tables    == context.tables
      data      == IF HasField(args, "data") THEN <<Field(args, "data")>> ELSE << >>
      at        == FindTable(tables, tableName)
  IN  CASE action = "create" ->
             IF ~HasField(args, "headers")
             THEN { Return([text |-> <<"Error: Headers are required to create a table.">>]) }
             ELSE { Return([text |-> <<"Created new table '", tableName, "'.">>,
                            meta |-> [tables |->
                               Append(tables, [name |-> tableName,
                                               headers |-> Field(args, "headers"),
                                               rows |-> data])]]) }
        [] action = "read" ->
             IF at = 0
             THEN { Return([text |-> <<"Error: Table '", tableName, "' not found.">>]) }
             ELSE { Return([text |-> <<"Table '", tables[at].name, "':", tables[at].headers>>
                                       \o tables[at].rows]) }
        [] action = "update_rows" ->
             IF at = 0
             THEN { Return([text |-> <<"Error: Table '", tableName, "' not found.">>]) }
             ELSE IF data = << >>
             THEN { Return([text |-> <<"Error: No data provided to update.">>]) }
             ELSE { Return([text |-> <<"Added ", data[1], " rows to table '", tableName, "'.">>,
                            meta |-> [tables |->
                               [tables EXCEPT ![at].rows = @ \o data]]]) }
        [] OTHER -> { Return([text |-> <<"Invalid action.">>]) }

\* generateImageTool.execute: the mode and the model are read from the context
\* it is handed, with 'generate' and Gemini Flash as defaults; a failure of
\* the image service is caught and told in the text.
GenerateImageExecute(args, context) ==
  LET mode  == IF "imageGenerationMode" \in DOMAIN context
               THEN context.imageGenerationMode ELSE "generate"
      model == IF "imageModel" \in DOMAIN context
               THEN context.imageModel ELSE "gemini-2.5-flash-image"
      failed == Return([text |-> <<"Image Generation failed: ", "service unavailable">>])
  IN  IF mode = "prompt_only"
      THEN { Return([text |-> <<"I have crafted detailed prompts for your Pro account tools:",
                                Field(args, "prompt")>>]),
             failed }
      ELSE { Return([text |-> <<"Generated image using ",
                                IF model = "imagen-4.0-generate-001"
                                THEN "Imagen 3" ELSE "Gemini Flash", ".">>,
                     meta |-> [generatedImage |-> [model |-> model, mode |-> mode]]]),
             failed }

\* toolImpl.execute(toolArgs, executionContext): every outcome the executor
\* of `name` can have; for the other tools, what AgentTool.execute allows.
Execute(name, args, context) ==
  CASE name = "updateDraft"    -> UpdateDraftExecute(args, context)
    [] name = "searchWeb"      -> SearchWebExecute(args, context)
    [] name = "generateCanvas" -> GenerateCanvasExecute(args, context)
    [] name = "manageTables"   -> ManageTablesExecute(args, context)
    [] name = "generateImage"  -> GenerateImageExecute(args, context)
    [] OTHER                   -> { Return([text |-> <<"done">>]), Throw("failed") }

(* -------------------------- the model's side -------------------------- *)

Call(name, args) == [name |-> name, args |-> args]

OverwriteArgs == << <<"mode", "overwrite">>, <<"content", "summary">> >>

QueryArgs == << <<"query", "recent studies">> >>

\* An overwrite that clears the document.
ClearArgs == << <<"mode", "overwrite">>, <<"content", "">> >>

CanvasArgs ==
  << <<"nodes", "studies,summary">>, <<"edges", "studies-summary">>,
     <<"topic_summary", "recent studies">> >>

CreateTableArgs ==
  << <<"action", "create">>, <<"tableName", "Results">>, <<"headers", "study,year">> >>

\* The creation of a second table.
CreateMethodsArgs ==
  << <<"action", "create">>, <<"tableName", "Methods">>, <<"headers", "method,sample">> >>

PromptArgs == << <<"prompt", "a lab at night">> >>

\* A patch of a segment the draft of the context holds, and one of a segment
\* it does not hold.
PatchHitArgs ==
  << <<"mode", "patch">>, <<"content", "revised body">>, <<"search_text", "body">> >>

PatchMissArgs ==
  << <<"mode", "patch">>, <<"content", "revised end">>, <<"search_text", "conclusion">> >>

\* A turn to run: the keywords that occur in the lowercased user text, the
\* context.enabledTools given to the constructor, and the function calls the
\* hosted model may issue during the turn.
Scenario(text, enabled, menu) ==
  [userText |-> text, enabledTools |-> enabled, callMenu |-> menu, obedient |-> FALSE]

\* The same with a hosted model that does what the supervisor tells it and
\* nothing else.
ObedientScenario(text, enabled, menu) ==
  [Scenario(text, enabled, menu) EXCEPT !.obedient = TRUE]

DeepReasonArgs == << <<"problem", "compare the studies">> >>

\* A writing request with every tool enabled; the same with updateDraft left
\* out of enabledTools and a model that also asks for a tool the registry
\* does not know; a request without any keyword.
CoreScenarios ==
  { Scenario({"write"}, TOOL_REGISTRY,
             { Call("updateDraft", OverwriteArgs), Call("searchWeb", QueryArgs) }),
    Scenario({"write"}, TOOL_REGISTRY \ {"updateDraft"},
             { Call("updateDraft", OverwriteArgs), Call("lookupPatent", QueryArgs) }),
    Scenario({}, TOOL_REGISTRY,
             { Call("searchWeb", QueryArgs), Call("lookupPatent", QueryArgs) }) }

\* "Search for recent studies on X and write a summary paragraph in the
\* draft", lowercased: the keywords that occur in it.  'write' and 'draft'
\* do, and so does 'graph', inside 'paragraph'.
SearchAndWriteText == {"write", "draft", "graph"}

\* That request with a model that writes and draws but never searches; a
\* request without keyword where the model clears the draft and creates a
\* table; a request for a picture.
ContextScenarios ==
  { Scenario(SearchAndWriteText, TOOL_REGISTRY,
             { Call("updateDraft", OverwriteArgs), Call("generateCanvas", CanvasArgs) }),
    Scenario({}, TOOL_REGISTRY,
             { Call("updateDraft", ClearArgs), Call("manageTables", CreateTableArgs) }),
    Scenario({"generate", "image"}, TOOL_REGISTRY,
             { Call("generateImage", PromptArgs) }) }

\* A request that makes all four keyword tools mandatory, and the
\* search-and-write request, both put to a model that obeys.
ObedientScenarios ==
  { ObedientScenario({"write", "graph", "think", "generate", "image"}, TOOL_REGISTRY,
                     { Call("updateDraft", OverwriteArgs), Call("generateCanvas", CanvasArgs),
                       Call("deepReason", DeepReasonArgs), Call("generateImage", PromptArgs) }),
    ObedientScenario(SearchAndWriteText, TOOL_REGISTRY,
                     { Call("updateDraft", OverwriteArgs), Call("generateCanvas", CanvasArgs) }) }

\* Words a user text may contain: the keywords of intent detection and two
\* words that name a tool's business without being keywords.
Vocabulary ==
  { "draft", "write", "paper", "report",
    "canvas", "diagram", "graph", "map", "visualize",
    "reason", "deep", "think", "plan",
    "create", "generate", "image", "picture", "photo",
    "search", "table" }

\* The lowercased user texts in which at most n words of the vocabulary occur.
Texts(n) == { t \in SUBSET Vocabulary : Cardinality(t) <= n }

\* Every such text, put to a model that is given no function to call.
IntentScenarios == { Scenario(t, TOOL_REGISTRY, {}) : t \in Texts(MaxWords) }

\* A request without keyword where the model patches the draft, once with a
\* segment that is there and once with one that is not.
PatchScenarios ==
  { Scenario({}, TOOL_REGISTRY,
             { Call("updateDraft", PatchHitArgs), Call("updateDraft", PatchMissArgs) }) }

\* A request without keyword where the model creates two tables.
TablesScenarios ==
  { Scenario({}, TOOL_REGISTRY,
             { Call("manageTables", CreateTableArgs),
               Call("manageTables", CreateMethodsArgs) }) }

\* Every sequence of 1..n calls over the menu.
CallSeqs(menu, n) == UNION { [1..k -> menu] : k \in 1..n }

TextResponse(t) == [functionCalls |-> << >>, text |-> t]

CallsResponse(cs) == [functionCalls |-> cs, text |-> << >>]

\* GenerateContentResponse: plain text (possibly empty) or function calls.
Responses(menu) ==
  { TextResponse(<< >>), TextResponse(<<"Here is the answer.">>) }
    \cup { CallsResponse(cs) : cs \in CallSeqs(menu, MaxCalls) }

NoResponse == TextResponse(<< >>)

\* Errors a request to the hosted model fails with.
Err(m, s) == [message |-> m, status |-> s]

RequestErrors ==
  { Err(<<"got status: ", "429">>, "UNKNOWN"),
    Err(<<"quota exceeded">>, "RESOURCE_EXHAUSTED"),
    Err(<<"Failed to fetch">>, "UNKNOWN") }



(* --------------------------- pure helpers ----------------------------- *)

KeywordOrder == <<"updateDraft", "generateCanvas", "deepReason", "generateImage">>

\* Mutant: a picture is required as soon as 'create' or 'generate' occurs.
RequiresOnVerbAlone(text, t) ==
  CASE t = "updateDraft" ->
         text \cap {"draft", "write", "paper", "report"} # {}
    [] t = "generateCanvas" ->
         text \cap {"canvas", "diagram", "graph", "map", "visualize"} # {}
    [] t = "deepReason" ->
         text \cap {"reason", "deep", "think", "plan"} # {}
    [] t = "generateImage" ->
         text \cap {"create", "generate"} # {}
    [] OTHER -> FALSE

\* 1. INTENT DETECTION: does userText require tool t?
Requires(text, t) ==
  CASE t = "updateDraft" ->
         text \cap {"draft", "write", "paper", "report"} # {}
    [] t = "generateCanvas" ->
         text \cap {"canvas", "diagram", "graph", "map", "visualize"} # {}
    [] t = "deepReason" ->
         text \cap {"reason", "deep", "think", "plan"} # {}
    [] t = "generateImage" ->
         /\ text \cap {"create", "generate"} # {}
         /\ text \cap {"image", "picture", "photo"} # {}
    [] OTHER -> FALSE

\* requiredTools: a Set, which JavaScript iterates in insertion order.
RequiredTools(text) == SelectSeq(KeywordOrder, LAMBDA t : Requires(text, t))

\* Mutant: the filter on toolsExecuted turned around.
ValidMissingToolsInverted(required, executed) ==
  SelectSeq(required, LAMBDA t : t \in executed /\ t \in TOOL_REGISTRY)

\* validMissingTools: required, not yet in toolsExecuted, and in TOOL_REGISTRY.
ValidMissingTools(required, executed) ==
  SelectSeq(required, LAMBDA t : t \notin executed /\ t \in TOOL_REGISTRY)

\* Mutant: the instruction names no tool.
SupervisorPromptNamingNone(nextTool) ==
  <<"[SYSTEM SUPERVISOR]: You have NOT completed the user's request yet.">>

\* The supervisor instruction that names nextTool.
SupervisorPrompt(nextTool) ==
  <<"[SYSTEM SUPERVISOR]: You have NOT completed the user's request yet. You must execute the '",
    nextTool, "' tool before finishing. Execute '", nextTool,
    "' now based on the previous context. Do not apologize.">>

\* The argument of chat.sendMessage: the user's message, a batch of function
\* responses or a supervisor instruction.
Message(kind, body) == [kind |-> kind, body |-> body]

NoMessage == Message("none", << >>)

\* Mutant: the start of a call is not announced.
OnToolStartDropped(notified, callId, toolName) == notified

\* callbacks.onToolStart(callId, toolName), as the caller records it.
OnToolStart(notified, callId, toolName) ==
  notified \cup { [callId |-> callId, toolName |-> toolName] }

\* Mutant: the cache is never consulted.
CacheHitNever(cache, key) == FALSE

\* toolCallCache.has(cacheKey)
CacheHit(cache, key) == key \in DOMAIN cache

\* Mutant: the batch is sent while calls are still running.
AllSettledNotAwaited(suspended) == TRUE

\* await Promise.all(...): resolved once no callback is suspended any more.
AllSettled(suspended) == suspended = {}

\* Handle Tool Specific Side Effects: the hook to call for the result of an
\* executor that returned, if any.  A meta object is truthy when present; a
\* content string is truthy when it is not ''.
SideEffects(toolName, toolOutput) ==
  LET meta == IF "meta" \in DOMAIN toolOutput THEN toolOutput.meta ELSE [x \in {} |-> 0]
  IN  IF toolName = "updateDraft" /\ "content" \in DOMAIN meta /\ meta.content # << >>
      THEN { [hook |-> "onDraftUpdate", value |-> meta.content] }
      ELSE IF toolName = "generateCanvas" /\ "canvasData" \in DOMAIN meta
      THEN { [hook |-> "onCanvasUpdate", value |-> meta.canvasData] }
      ELSE IF toolName = "manageTables" /\ "tables" \in DOMAIN meta
      THEN { [hook |-> "onTablesUpdate", value |-> meta.tables] }
      ELSE {}

\* What a model that obeys answers to msg: the call of the tool a supervisor
\* instruction names, and plain text to anything else.
ObedientResponses(menu, msg) ==
  IF msg.kind = "supervisor" /\ Len(msg.body) >= 2
  THEN { CallsResponse(<<c>>) : c \in { d \in menu : d.name = msg.body[2] } }
  ELSE { TextResponse(<<"Here is the answer.">>) }

\* const toolImpl = TOOL_REGISTRY[toolName]; if (toolImpl) ...
ToolImplFound(name, enabled) == name \in TOOL_REGISTRY

\* Mutant: the catch hands on the bare message.
ToolOutputOfBareMessage(outcome) ==
  IF outcome.kind = "return" THEN outcome.value
  ELSE [text |-> <<outcome.message>>]

\* The catch around toolImpl.execute: a thrown error becomes a text result.
ToolOutputOf(outcome) ==
  IF outcome.kind = "return" THEN outcome.value
  ELSE [text |-> <<"Error executing tool: ", outcome.message>>]

NotAvailableOutput(name) == [text |-> <<"Error: Tool '", name, "' is not available.">>]

\* Mutant: the copy is sent as it is.
StripMetaForgotten(toolOutput) == toolOutput

\* const responseToSend = { ...toolOutput }; delete responseToSend.meta
\* (every meta a tool of this repository returns is an object, hence truthy).
StripMeta(toolOutput) ==
  IF "meta" \in DOMAIN toolOutput
  THEN [f \in DOMAIN toolOutput \ {"meta"} |-> toolOutput[f]]
  ELSE toolOutput

\* output: toolOutput.text || JSON.stringify(toolOutput)
OutputText(toolOutput) ==
  IF toolOutput.text # << >> THEN toolOutput.text ELSE <<"{\"text\":\"\"}">>

\* The ToolExecutionResult given to callbacks.onToolResult.
ToolResult(callId, toolName, toolArgs, toolOutput) ==
  LET base == [callId |-> callId, toolName |-> toolName, input |-> toolArgs,
               output |-> OutputText(toolOutput)]
  IN  IF "meta" \in DOMAIN toolOutput
      THEN [f \in DOMAIN base \cup {"meta"} |->
              IF f = "meta" THEN toolOutput.meta ELSE base[f]]
      ELSE base

FunctionResponse(name, callId, toolOutput) ==
  [name |-> name, id |-> callId, response |-> [result |-> StripMeta(toolOutput)]]

\* e?.message?.includes('429') || e?.status === 'RESOURCE_EXHAUSTED'
IsQuota(e) == Includes(e.message, "429") \/ e.status = "RESOURCE_EXHAUSTED"

\* Mutant: one retry more than the budget.
ShouldRetryOneMore(e, i, retries) == IsQuota(e) /\ i < retries

\* Mutant: every error is retried.
ShouldRetryAnyError(e, i, retries) == i < retries - 1

\* if (isQuota && i < retries - 1)
ShouldRetry(e, i, retries) == IsQuota(e) /\ i < retries - 1

\* const delay = 2000 * Math.pow(2, i)
RetryDelay(i) == BaseDelayMs * Pow2(i)

\* Mutant: the safety fallback is left out.
FinalTextWithoutFallback(response, loops) == response.text

\* Mutant: the fallback only applies from the second iteration on.
FinalTextFallbackLate(response, loops) ==
  IF response.text = << >> /\ loops > 1
  THEN <<"I have completed the requested actions.">>
  ELSE response.text

\* let finalText = currentResponse.text || ""; the safety fallback.
FinalText(response, loops) ==
  IF response.text = << >> /\ loops > 0
  THEN <<"I have completed the requested actions.">>
  ELSE response.text

\* Mutant: a requested tool is not recorded.
MarkExecutedNever(done, toolName) == done

\* toolsExecuted.add(toolName)
MarkExecuted(done, toolName) == done \cup {toolName}

\* Mutant: one iteration more than the cap.
LoopGuardOffByOne(loops) == loops <= MAX_LOOPS

\* while (loopCount < MAX_LOOPS)
LoopGuard(loops) == loops < MAX_LOOPS

Put(f, k, v) == [x \in DOMAIN f \cup {k} |-> IF x = k THEN v ELSE f[x]]

Get(f, k, default) == IF k \in DOMAIN f THEN f[k] ELSE default

EmptyMap == [x \in {} |-> 0]

NoError == Err(<< >>, "NONE")

\* retryOperation(operation, maxRetries = 3)
MaxRetries == 3

\* One attempt of a wrapped operation: it resolves, or rejects with an error.
Resolves == [ok |-> TRUE, error |-> NoError]

Rejects(e) == [ok |-> FALSE, error |-> e]

AttemptOutcomes == {Resolves} \cup { Rejects(e) : e \in RequestErrors }

\* What a helper did with an operation: the attempts it made, the delays it
\* slept, and how it ended.
Run(attempts, waits, kind, error) ==
  [attempts |-> attempts, waits |-> waits, kind |-> kind, error |-> error]

NoRun == Run(0, << >>, "none", NoError)

\* _retryRequest(fn, retries) from loop index i on, fn behaving as attempt
\* tells for each attempt.
RECURSIVE RetryRequestFrom(_, _, _, _)
RetryRequestFrom(i, waits, attempt, retries) ==
  IF i >= retries
  THEN Run(i, waits, "throw", Err(<<"API Request Failed after retries.">>, "NONE"))
  ELSE IF attempt[i + 1].ok
  THEN Run(i + 1, waits, "return", NoError)
  ELSE IF ShouldRetry(attempt[i + 1].error, i, retries)
  THEN RetryRequestFrom(i + 1, Append(waits, RetryDelay(i)), attempt, retries)
  ELSE Run(i + 1, waits, "throw", attempt[i + 1].error)

RetryRequest(attempt) == RetryRequestFrom(0, << >>, attempt, DefaultRetries)

\* retryOperation(operation, maxRetries) from loop index i on.
RECURSIVE RetryOperationFrom(_, _, _, _, _)
RetryOperationFrom(i, waits, lastError, attempt, maxRetries) ==
  IF i >= maxRetries
  THEN Run(i, waits, "throw", lastError)
  ELSE IF attempt[i + 1].ok
  THEN Run(i + 1, waits, "return", NoError)
  ELSE IF IsQuota(attempt[i + 1].error)
  THEN RetryOperationFrom(i + 1, Append(waits, 2000 * Pow2(i)),
                          attempt[i + 1].error, attempt, maxRetries)
  ELSE Run(i + 1, waits, "throw", attempt[i + 1].error)

RetryOperation(attempt) == RetryOperationFrom(0, << >>, NoError, attempt, MaxRetries)

(* ------------------------------- state -------------------------------- *)

VARIABLES
  userText,          \* keywords of the message given to sendMessage
  enabledTools,      \* context.enabledTools
  callMenu,          \* function calls the hosted model may issue
  obedient,          \* whether the hosted model only does what it is told
  pc,                \* where sendMessage stands
  requiredTools,
  toolsExecuted,
  toolCallCache,
  currentResponse,
  loopCount,
  req,               \* the _retryRequest call in progress, or the last one
  nextCall,          \* index of the next call callsToExecute.map visits
  pending,           \* calls suspended at `await toolImpl.execute(...)`
  functionResponses,
  started,           \* onToolStart notifications of this iteration
  resulted,          \* onToolResult notifications of this iteration
  threw,             \* calls of this iteration whose executor threw
  executed,          \* calls of this iteration whose executor was invoked
  finalText,         \* what sendMessage resolved with
  uiDraft,           \* the caller's draft, set by onDraftUpdate
  uiCanvas,          \* the caller's canvas, set by onCanvasUpdate
  uiTables,          \* the caller's tables, set by onTablesUpdate
  message,           \* what the request in progress sends to the model
  handed,            \* the executionContext each executor of this iteration got
  hooked,            \* the side-effect hook called for each call of this iteration
  modelRequests,     \* _retryRequest calls of the turn, i.e. requests but for retries
  messagesLength,    \* ResearchWriteView: messages.length
  isProcessing,      \* ResearchWriteView: the isProcessing state
  inputValue,        \* ResearchWriteView: the inputValue state
  isRecording,       \* ResearchWriteView: the isRecording state
  rendered,          \* the state as of the last render, which the handlers close over
  depsChanged,       \* a dependency of the orchestrator effect changed since it last ran
  orchestratorRef,   \* orchestratorRef.current, as the number of the instance
  transcribing,      \* transcribeAudio calls in flight
  turns,             \* the unresolved sendMessage calls, each with its instance
  turnsStarted,      \* handleSendMessage calls that reached sendMessage
  outcomes,          \* what each attempt of an operation wrapped by a retry helper does
  requestRun,        \* the run of _retryRequest on that operation
  operationRun       \* the run of retryOperation on that operation

vars ==
  <<userText, enabledTools, callMenu, obedient, pc, requiredTools, toolsExecuted,
    toolCallCache, currentResponse, loopCount, req, nextCall, pending,
    functionResponses, started, resulted, threw, executed,
    finalText, uiDraft, uiCanvas, uiTables, message, handed, hooked, modelRequests,
    messagesLength, isProcessing, inputValue, isRecording, rendered, depsChanged,
    orchestratorRef, transcribing, turns, turnsStarted,
    outcomes, requestRun, operationRun>>

\* The two retry helpers put side by side.
helpers == <<outcomes, requestRun, operationRun>>

\* The state of the component that owns the orchestrator.
caller ==
  <<messagesLength, isProcessing, inputValue, isRecording, rendered, depsChanged,
    orchestratorRef, transcribing, turns, turnsStarted>>

config == <<userText, enabledTools, callMenu, obedient>>

\* The caller's project state.
ui == <<uiDraft, uiCanvas, uiTables>>

turn == <<requiredTools, toolsExecuted, toolCallCache, ui>>

batch ==
  <<nextCall, pending, functionResponses, started, resulted, threw, executed,
    handed, hooked>>

\* Mutant: the context is refreshed from what the callbacks reported.
ExecutionContextRefreshed ==
  [sessionImages     |-> [x \in {} |-> 0],
   currentBrowserUrl |-> Context.currentBrowserUrl,
   projectId         |-> Context.projectId,
   assetsFolderId    |-> Context.assetsFolderId,
   draftContent      |-> uiDraft,
   canvasData        |-> uiCanvas,
   tables            |-> uiTables,
   customSources     |-> Context.customSources]

\* const executionContext = {...}: what every executor receives, built from
\* this.context and callbacks.getSessionImages.
ExecutionContext ==
  [sessionImages     |-> [x \in {} |-> 0],
   currentBrowserUrl |-> Context.currentBrowserUrl,
   projectId         |-> Context.projectId,
   assetsFolderId    |-> Context.assetsFolderId,
   draftContent      |-> Context.draftContent,
   canvasData        |-> Context.canvasData,
   tables            |-> Context.tables,
   customSources     |-> Context.customSources]

\* A _retryRequest call: i is its loop index, failures the errors fn() has
\* rejected with so far, waits the delays it has slept, thrown what it threw.
NewRequest(kind) ==
  [kind |-> kind, i |-> 0, failures |-> << >>, waits |-> << >>,
   status |-> "calling", thrown |-> NoError]

\* A request that returned: the locals of _retryRequest are gone.
ResolvedRequest(kind) ==
  [kind |-> kind, i |-> 0, failures |-> << >>, waits |-> << >>,
   status |-> "resolved", thrown |-> NoError]

IdleRequest ==
  [kind |-> "none", i |-> 0, failures |-> << >>, waits |-> << >>,
   status |-> "none", thrown |-> NoError]

\* String.prototype.trim on the texts the input box and the transcription hold.
Trim(text) == IF text = " " THEN "" ELSE text

\* What the text box or a transcription may hold: nothing, blanks, a request.
InputTexts == {"", " ", "summarise the draft"}

\* The view once mounted: no message yet, and the orchestrator effect has
\* run for the first render.
CallerMounted ==
  /\ messagesLength = 0
  /\ isProcessing = FALSE
  /\ inputValue = ""
  /\ isRecording = FALSE
  /\ rendered = [isProcessing |-> FALSE, inputValue |-> "", isRecording |-> FALSE]
  /\ depsChanged = FALSE
  /\ orchestratorRef = 1
  /\ transcribing = 0
  /\ turns = {}
  /\ turnsStarted = 0

InitWith(scenarios) ==
  /\ \E sc \in scenarios :
       /\ userText = sc.userText
       /\ enabledTools = sc.enabledTools
       /\ callMenu = sc.callMenu
       /\ obedient = sc.obedient
  /\ pc = "idle"
  /\ requiredTools = << >>
  /\ toolsExecuted = {}
  /\ toolCallCache = EmptyMap
  /\ currentResponse = NoResponse
  /\ loopCount = 0
  /\ req = IdleRequest
  /\ nextCall = 1
  /\ pending = {}
  /\ functionResponses = << >>
  /\ started = {}
  /\ resulted = << >>
  /\ threw = EmptyMap
  /\ executed = {}
  /\ finalText = << >>
  /\ uiDraft = Context.draftContent
  /\ uiCanvas = Context.canvasData
  /\ uiTables = Context.tables
  /\ message = NoMessage
  /\ handed = EmptyMap
  /\ hooked = EmptyMap
  /\ modelRequests = 0
  /\ CallerMounted

\* No operation is being compared.
HelpersIdle ==
  /\ outcomes = << >>
  /\ requestRun = NoRun
  /\ operationRun = NoRun

Init ==
  /\ HelpersIdle
  /\ InitWith(CoreScenarios \cup ContextScenarios \cup ObedientScenarios
             \cup PatchScenarios \cup TablesScenarios)


(* ------------------------------ actions ------------------------------- *)

\* sendMessage is over: its locals (the turn cache, the function responses)
\* and the notifications of its last iteration are gone.
Discard ==
  /\ toolCallCache' = EmptyMap
  /\ nextCall' = 1
  /\ pending' = {}
  /\ functionResponses' = << >>
  /\ started' = {}
  /\ resulted' = << >>
  /\ threw' = EmptyMap
  /\ executed' = {}
  /\ message' = NoMessage
  /\ handed' = EmptyMap
  /\ hooked' = EmptyMap

\* `return finalText` with the fallback applied.
ReturnFinal(response, loops) ==
  /\ pc' = "done"
  /\ finalText' = FinalText(response, loops)
  /\ Discard

\* The rejection of a request leaves sendMessage uncaught.
Reject ==
  /\ pc' = "rejected"
  /\ UNCHANGED finalText
  /\ Discard

\* sendMessage(message, callbacks) up to its first request to the model.
SendMessage ==
  /\ pc = "idle"
  /\ requiredTools' = RequiredTools(userText)
  /\ toolsExecuted' = {}
  /\ toolCallCache' = EmptyMap
  /\ req' = NewRequest("first")
  /\ message' = Message("user", userText)
  /\ pc' = "request"
  /\ modelRequests' = 1
  /\ UNCHANGED <<caller, helpers, config, currentResponse, loopCount, batch, finalText, ui>>

\* _retryRequest: `return await fn()` resolves with the model's response.
RetryAttemptOk ==
  /\ pc = "request"
  /\ \E r \in (IF obedient THEN ObedientResponses(callMenu, message)
                 ELSE Responses(callMenu)) :
       currentResponse' = r
  /\ req' = ResolvedRequest(req.kind)
  /\ pc' = "loop"
  /\ nextCall' = 1
  /\ pending' = {}
  /\ functionResponses' = << >>
  /\ started' = {}
  /\ resulted' = << >>
  /\ threw' = EmptyMap
  /\ executed' = {}
  /\ message' = NoMessage
  /\ handed' = EmptyMap
  /\ hooked' = EmptyMap
  /\ UNCHANGED <<caller, helpers, config, modelRequests, turn, loopCount, finalText>>

\* _retryRequest: fn() rejects with e and the wait that follows is scheduled.
RetryAttemptBackoff ==
  /\ pc = "request"
  /\ \E e \in RequestErrors :
       /\ ShouldRetry(e, req.i, DefaultRetries)
       /\ req' = [req EXCEPT !.status = "waiting",
                             !.failures = Append(@, e),
                             !.waits = Append(@, RetryDelay(req.i))]
  /\ pc' = "backoff"
  /\ UNCHANGED <<caller, helpers, config, modelRequests, turn, currentResponse, loopCount, batch, finalText, message>>

\* _retryRequest: fn() rejects with e and `throw e` ends the request.  The
\* first request of sendMessage has no try around it; the two inside the loop
\* catch and break.
RetryAttemptThrow ==
  /\ pc = "request"
  /\ \E e \in RequestErrors :
       /\ ~ShouldRetry(e, req.i, DefaultRetries)
       /\ req' = [req EXCEPT !.status = "failed", !.failures = Append(@, e),
                             !.thrown = e]
  /\ IF req.kind = "first"
     THEN Reject
     ELSE ReturnFinal(currentResponse, loopCount)
  /\ UNCHANGED <<caller, helpers, config, modelRequests, requiredTools, toolsExecuted, ui, currentResponse, loopCount>>

\* _retryRequest: the timer fires; `continue` with i + 1.  Past the last
\* index the for loop ends and the generic error is thrown.
RetryBackoffElapsed ==
  /\ pc = "backoff"
  /\ IF req.i + 1 < DefaultRetries
     THEN /\ req' = [req EXCEPT !.i = @ + 1, !.status = "calling"]
          /\ pc' = "request"
          /\ UNCHANGED <<finalText, toolCallCache, batch, message>>
     ELSE /\ req' = [req EXCEPT !.i = @ + 1, !.status = "failed",
                                !.thrown = Err(<<"API Request Failed after retries.">>, "NONE")]
          /\ IF req.kind = "first"
             THEN Reject
             ELSE ReturnFinal(currentResponse, loopCount)
  /\ UNCHANGED <<caller, helpers, config, modelRequests, requiredTools, toolsExecuted, ui, currentResponse, loopCount>>

\* CASE A of an iteration: the response holds function calls.
LoopFunctionCalls ==
  /\ pc = "loop"
  /\ LoopGuard(loopCount)
  /\ Len(currentResponse.functionCalls) > 0
  /\ loopCount' = loopCount + 1
  /\ pc' = "dispatch"
  /\ UNCHANGED <<caller, helpers, config, modelRequests, turn, currentResponse, req, batch, finalText, message>>

\* CASE B with a required tool missing: the supervisor forces the model on.
LoopSupervisor ==
  /\ pc = "loop"
  /\ LoopGuard(loopCount)
  /\ Len(currentResponse.functionCalls) = 0
  /\ ValidMissingTools(requiredTools, toolsExecuted) # << >>
  /\ LET nextTool == ValidMissingTools(requiredTools, toolsExecuted)[1]
     IN  /\ started' = OnToolStart(started, <<"supervisor", loopCount + 1>>, nextTool)
         /\ message' = Message("supervisor", SupervisorPrompt(nextTool))
  /\ loopCount' = loopCount + 1
  /\ req' = NewRequest("supervisor")
  /\ pc' = "request"
  /\ modelRequests' = modelRequests + 1
  /\ UNCHANGED <<caller, helpers, config, turn, currentResponse, nextCall, pending, functionResponses,
                 resulted, threw, executed, handed, hooked, finalText>>

\* CASE B with nothing missing: break, the turn is complete.
LoopComplete ==
  /\ pc = "loop"
  /\ LoopGuard(loopCount)
  /\ Len(currentResponse.functionCalls) = 0
  /\ ValidMissingTools(requiredTools, toolsExecuted) = << >>
  /\ loopCount' = loopCount + 1
  /\ ReturnFinal(currentResponse, loopCount + 1)
  /\ UNCHANGED <<caller, helpers, config, modelRequests, requiredTools, toolsExecuted, ui, currentResponse, req>>

\* The while condition fails: MAX_LOOPS iterations are used up.
LoopExhausted ==
  /\ pc = "loop"
  /\ ~LoopGuard(loopCount)
  /\ ReturnFinal(currentResponse, loopCount)
  /\ UNCHANGED <<caller, helpers, config, modelRequests, requiredTools, toolsExecuted, ui, currentResponse, loopCount, req>>

\* One callback of callsToExecute.map, from its start to its first await or,
\* when it awaits nothing, to its end.  The callbacks start in call order and
\* none resumes before the last has started.
DispatchCall ==
  /\ pc = "dispatch"
  /\ LET call   == currentResponse.functionCalls[nextCall]
         callId == <<"call", loopCount, nextCall>>
         key    == CacheKey(call)
         last   == nextCall = Len(currentResponse.functionCalls)
     IN
       /\ toolsExecuted' = MarkExecuted(toolsExecuted, call.name)
       /\ nextCall' = nextCall + 1
       /\ pc' = IF last THEN "await" ELSE "dispatch"
       /\ IF CacheHit(toolCallCache, key)
          THEN \* served from the cache: no notification at all
               /\ functionResponses' =
                    Append(functionResponses,
                           FunctionResponse(call.name, callId, toolCallCache[key]))
               /\ UNCHANGED <<toolCallCache, started, resulted, pending, executed, handed>>
          ELSE IF ToolImplFound(call.name, enabledTools)
          THEN \* onToolStart, then toolImpl.execute(toolArgs, executionContext)
               \* is called and awaited
               /\ started' = OnToolStart(started, callId, call.name)
               /\ executed' = executed \cup {nextCall}
               /\ handed' = Put(handed, nextCall, ExecutionContext)
               /\ pending' = pending \cup {nextCall}
               /\ UNCHANGED <<toolCallCache, functionResponses, resulted>>
          ELSE \* no such tool: the synthetic result, without any await
               /\ started' = OnToolStart(started, callId, call.name)
               /\ toolCallCache' = Put(toolCallCache, key, NotAvailableOutput(call.name))
               /\ resulted' = Append(resulted,
                    ToolResult(callId, call.name, call.args, NotAvailableOutput(call.name)))
               /\ functionResponses' =
                    Append(functionResponses,
                           FunctionResponse(call.name, callId, NotAvailableOutput(call.name)))
               /\ UNCHANGED <<pending, executed, handed>>
  /\ UNCHANGED <<caller, helpers, config, modelRequests, requiredTools, currentResponse, loopCount, req, threw, finalText,
                 ui, message, hooked>>

\* The rest of a callback once its executor has settled: the side-effect
\* hooks, the cache, onToolResult and the function response.
CompleteCall ==
  /\ pc = "await"
  /\ \E n \in pending :
       LET call   == currentResponse.functionCalls[n]
           callId == <<"call", loopCount, n>>
           key    == CacheKey(call)
       IN  \E outcome \in Execute(call.name, call.args, handed[n]) :
             LET toolOutput == ToolOutputOf(outcome)
                 effects    == IF outcome.kind = "return"
                               THEN SideEffects(call.name, toolOutput) ELSE {}
                 Reported(hook, old) ==
                   IF \E h \in effects : h.hook = hook
                   THEN (CHOOSE h \in effects : h.hook = hook).value
                   ELSE old
             IN
               /\ pending' = pending \ {n}
               /\ threw' = IF outcome.kind = "throw"
                           THEN Put(threw, n, outcome.message) ELSE threw
               /\ uiDraft' = Reported("onDraftUpdate", uiDraft)
               /\ uiCanvas' = Reported("onCanvasUpdate", uiCanvas)
               /\ uiTables' = Reported("onTablesUpdate", uiTables)
               /\ hooked' = IF effects = {} THEN hooked
                            ELSE Put(hooked, n, CHOOSE h \in effects : TRUE)
               /\ toolCallCache' = Put(toolCallCache, key, toolOutput)
               /\ resulted' = Append(resulted,
                    ToolResult(callId, call.name, call.args, toolOutput))
               /\ functionResponses' =
                    Append(functionResponses,
                           FunctionResponse(call.name, callId, toolOutput))
  /\ UNCHANGED <<caller, helpers, config, modelRequests, pc, requiredTools, toolsExecuted, currentResponse, loopCount,
                 req, nextCall, started, executed, handed, finalText, message>>

\* Promise.all has resolved: send all function responses back in one go.
SendBatch ==
  /\ pc = "await"
  /\ AllSettled(pending)
  /\ req' = NewRequest("batch")
  /\ message' = Message("functionResponses", functionResponses)
  /\ pc' = "request"
  /\ modelRequests' = modelRequests + 1
  /\ UNCHANGED <<caller, helpers, config, turn, currentResponse, loopCount, batch, finalText>>

Next ==
  \/ SendMessage
  \/ RetryAttemptOk
  \/ RetryAttemptBackoff
  \/ RetryAttemptThrow
  \/ RetryBackoffElapsed
  \/ LoopFunctionCalls
  \/ LoopSupervisor
  \/ LoopComplete
  \/ LoopExhausted
  \/ DispatchCall
  \/ CompleteCall
  \/ SendBatch

Spec == Init /\ [][Next]_vars

\* Every awaited promise settles: requests and executors answer or fail,
\* timers fire, and the event loop runs each continuation.
FairSpec == Spec /\ WF_vars(Next)

\* Intent detection on its own: sendMessage up to its first request, for
\* every user text of the vocabulary.
IntentInit == HelpersIdle /\ InitWith(IntentScenarios)

IntentNext == SendMessage

IntentSpec == IntentInit /\ [][IntentNext]_vars


(* ----------------------------- the caller ----------------------------- *)

\* The orchestrator's own state, which the view's steps leave alone.
orchestrator ==
  <<config, pc, turn, currentResponse, loopCount, req, batch, finalText, message,
    modelRequests>>

\* React renders the component with the state given and, when a dependency
\* of the effect changed, runs it: orchestratorRef.current = new
\* AgentOrchestrator(...).  Instances are numbered as they are constructed.
Commit(processing, input, recording, changed) ==
  /\ rendered' = [isProcessing |-> processing, inputValue |-> input,
                  isRecording |-> recording]
  /\ orchestratorRef' = IF changed THEN orchestratorRef + 1 ELSE orchestratorRef
  /\ depsChanged' = FALSE

\* handleSendMessage(text) down to `await orchestratorRef.current.sendMessage`:
\* two messages are appended, and the turn starts on the instance the ref
\* holds at that moment.
HandleSendMessage(text) ==
  /\ Trim(text) # ""
  /\ turnsStarted < MaxTurns
  /\ messagesLength' = messagesLength + 2
  /\ isProcessing' = TRUE
  /\ inputValue' = ""
  /\ turnsStarted' = turnsStarted + 1
  /\ turns' = turns \cup { [id |-> turnsStarted + 1, instance |-> orchestratorRef,
                            updated |-> FALSE] }

\* onChange of the text box.  The update comes from a discrete event, which
\* React renders before the event is over.
TypeText ==
  /\ \E text \in InputTexts :
       /\ text # inputValue
       /\ inputValue' = text
       /\ Commit(isProcessing, text, isRecording, depsChanged)
  /\ UNCHANGED <<orchestrator, helpers, messagesLength, isProcessing, isRecording, transcribing,
                 turns, turnsStarted>>

\* onKeyDown with Enter: handleSendMessage(inputValue), whatever
\* isProcessing is.
PressEnter ==
  /\ HandleSendMessage(rendered.inputValue)
  /\ Commit(TRUE, "", isRecording, TRUE)
  /\ UNCHANGED <<orchestrator, helpers, isRecording, transcribing>>

\* onClick of the send button, which is rendered disabled when the input is
\* blank or isProcessing.
ClickSend ==
  /\ ~(Trim(rendered.inputValue) = "" \/ rendered.isProcessing)
  /\ HandleSendMessage(rendered.inputValue)
  /\ Commit(TRUE, "", isRecording, TRUE)
  /\ UNCHANGED <<orchestrator, helpers, isRecording, transcribing>>

\* onClick of the microphone button while not recording.
StartRecording ==
  /\ ~rendered.isRecording
  /\ turnsStarted + transcribing < MaxTurns
  /\ isRecording' = TRUE
  /\ Commit(isProcessing, inputValue, TRUE, depsChanged)
  /\ UNCHANGED <<orchestrator, helpers, messagesLength, isProcessing, inputValue, transcribing,
                 turns, turnsStarted>>

\* onClick of the microphone button while recording: recorder.onstop reads
\* the audio and calls transcribeAudio.
StopRecording ==
  /\ rendered.isRecording
  /\ isRecording' = FALSE
  /\ transcribing' = transcribing + 1
  /\ Commit(isProcessing, inputValue, FALSE, depsChanged)
  /\ UNCHANGED <<orchestrator, helpers, messagesLength, isProcessing, inputValue, turns,
                 turnsStarted>>

\* transcribeAudio resolves: `if (text.trim()) handleSendMessage(text,
\* 'voice')`.  This runs in a promise continuation, outside any event, so the
\* render of its updates is only scheduled.
Transcribed ==
  /\ transcribing > 0
  /\ transcribing' = transcribing - 1
  /\ \E text \in InputTexts :
       IF Trim(text) # ""
       THEN /\ HandleSendMessage(text)
            /\ depsChanged' = TRUE
       ELSE UNCHANGED <<messagesLength, isProcessing, inputValue, turns, turnsStarted,
                        depsChanged>>
  /\ UNCHANGED <<orchestrator, helpers, isRecording, rendered, orchestratorRef>>

\* The render React scheduled for updates made outside an event.
Render ==
  /\ \/ depsChanged
     \/ rendered # [isProcessing |-> isProcessing, inputValue |-> inputValue,
                    isRecording |-> isRecording]
  /\ Commit(isProcessing, inputValue, isRecording, depsChanged)
  /\ UNCHANGED <<orchestrator, helpers, messagesLength, isProcessing, inputValue, isRecording,
                 transcribing, turns, turnsStarted>>

\* onDraftUpdate, onCanvasUpdate or onTablesUpdate of an unresolved turn: a
\* dependency of the effect changes.
OnProjectUpdate ==
  /\ \E t \in turns :
       /\ ~t.updated
       /\ turns' = (turns \ {t}) \cup { [t EXCEPT !.updated = TRUE] }
  /\ depsChanged' = TRUE
  /\ UNCHANGED <<orchestrator, helpers, messagesLength, isProcessing, inputValue, isRecording,
                 rendered, orchestratorRef, transcribing, turnsStarted>>

\* sendMessage resolves: the placeholder message gets its content, and
\* `finally` clears isProcessing.
SendMessageResolved ==
  /\ \E t \in turns : turns' = turns \ {t}
  /\ isProcessing' = FALSE
  /\ UNCHANGED <<orchestrator, helpers, messagesLength, inputValue, isRecording, rendered,
                 depsChanged, orchestratorRef, transcribing, turnsStarted>>

\* sendMessage rejects: `catch` appends an error message.
SendMessageRejected ==
  /\ \E t \in turns : turns' = turns \ {t}
  /\ messagesLength' = messagesLength + 1
  /\ isProcessing' = FALSE
  /\ depsChanged' = TRUE
  /\ UNCHANGED <<orchestrator, helpers, inputValue, isRecording, rendered, orchestratorRef,
                 transcribing, turnsStarted>>

CallerInit == HelpersIdle /\ InitWith({ Scenario({}, TOOL_REGISTRY, {}) })

CallerNext ==
  \/ TypeText
  \/ PressEnter
  \/ ClickSend
  \/ StartRecording
  \/ StopRecording
  \/ Transcribed
  \/ Render
  \/ OnProjectUpdate
  \/ SendMessageResolved
  \/ SendMessageRejected

CallerSpec == CallerInit /\ [][CallerNext]_vars


(* -------------------------- the retry helpers ------------------------- *)

\* An operation whose attempts resolve or reject in every way, for as many
\* attempts as a helper makes at most.
RetryInit ==
  /\ outcomes \in [1..DefaultRetries -> AttemptOutcomes]
  /\ requestRun = NoRun
  /\ operationRun = NoRun
  /\ InitWith({ Scenario({}, TOOL_REGISTRY, {}) })

\* AgentOrchestrator._retryRequest wraps the operation.
ApplyRetryRequest ==
  /\ requestRun = NoRun
  /\ requestRun' = RetryRequest(outcomes)
  /\ UNCHANGED <<orchestrator, caller, outcomes, operationRun>>

\* geminiService.retryOperation wraps the operation.
ApplyRetryOperation ==
  /\ operationRun = NoRun
  /\ operationRun' = RetryOperation(outcomes)
  /\ UNCHANGED <<orchestrator, caller, outcomes, requestRun>>

RetryNext == ApplyRetryRequest \/ ApplyRetryOperation

RetrySpec == RetryInit /\ [][RetryNext]_vars


(* ------------------------------ claims -------------------------------- *)

Calls == currentResponse.functionCalls

\* The iteration's function calls are fixed and some may have been visited.
InBatch == pc \in {"dispatch", "await"} \/ (pc \in {"request", "backoff"} /\ req.kind = "batch")

\* Every call of the response has resolved and the batch is about to be sent.
BatchResolved == pc = "await" /\ pending = {}

\* The index, in the response, of the call a function response answers.
CallOf(fr) == fr.id[3]

Terminated == pc \in {"done", "rejected"}

\* C1: within one turn, two function calls with the same tool name and the
\* same serialized arguments invoke the executor once (never twice), and the
\* function responses the two get carry the same result payload.
C1_CacheIdempotence ==
  InBatch =>
    /\ \A m, n \in executed :
         CacheKey(Calls[m]) = CacheKey(Calls[n]) => m = n
    /\ \A j, k \in 1..Len(functionResponses) :
         CacheKey(Calls[CallOf(functionResponses[j])])
             = CacheKey(Calls[CallOf(functionResponses[k])])
           => functionResponses[j].response = functionResponses[k].response

\* C2 as stated, where every request to the model succeeds: a turn whose user
\* text holds a keyword of updateDraft never returns while updateDraft is
\* enabled and has not been requested.
C2_NeverEndsWithoutUpdateDraft ==
  (/\ pc = "done"
   /\ req.status # "failed"
   /\ Requires(userText, "updateDraft")
   /\ "updateDraft" \in enabledTools)
    => "updateDraft" \in toolsExecuted

UpdateDraftOwed ==
  /\ Requires(userText, "updateDraft")
  /\ "updateDraft" \in enabledTools
  /\ "updateDraft" \notin toolsExecuted

\* C2 as amended: when an iteration of the loop finds a text-only response
\* with updateDraft owed, it announces and sends a supervisor instruction
\* instead of returning; and the turn returns with updateDraft owed only after
\* MAX_LOOPS iterations or after a request to the model has failed for good.
C2_SupervisorUnlessBudgetOrFailure ==
  /\ [][ (pc = "loop" /\ loopCount < MAX_LOOPS /\ Len(Calls) = 0 /\ UpdateDraftOwed)
           => /\ pc' = "request"
              /\ req' = NewRequest("supervisor")
              /\ [callId |-> <<"supervisor", loopCount'>>, toolName |-> "updateDraft"]
                   \in started' ]_vars
  /\ []( (pc = "done" /\ UpdateDraftOwed)
           => (loopCount = MAX_LOOPS \/ req.status = "failed") )

\* C2 witness: the supervisor instruction is on its way with updateDraft owed.
C2_Witness ==
  /\ pc = "request"
  /\ req.kind = "supervisor"
  /\ UpdateDraftOwed
  /\ currentResponse.text # << >>

\* C3: the loop never runs more than MAX_LOOPS iterations and sendMessage
\* ends, whatever the model answers: in particular when every response
\* holds function calls.
C3_LoopTerminates ==
  /\ [](loopCount <= MAX_LOOPS)
  /\ <>Terminated

\* C3 witness: fifteen iterations, each a batch of function calls (no keyword,
\* so no supervisor), a sixteenth response with calls again, and the return.
C3_Witness ==
  /\ pc = "done"
  /\ userText = {}
  /\ loopCount = MAX_LOOPS
  /\ Len(Calls) > 0
  /\ req = ResolvedRequest("batch")

\* C4: an executor that throws yields the function response "Error executing
\* tool: <message>" for its call, the batch goes on to be sent, and
\* sendMessage rejects only before any tool was dispatched.
C4_ToolFailureIsolated ==
  /\ \A n \in DOMAIN threw :
       /\ pc \in {"await", "request", "backoff"}
       /\ \E k \in 1..Len(functionResponses) :
            /\ functionResponses[k].id = <<"call", loopCount, n>>
            /\ functionResponses[k].response.result
                 = [text |-> <<"Error executing tool: ", threw[n]>>]
  /\ pc = "rejected" => (toolsExecuted = {} /\ loopCount = 0)

\* C4 witness: a batch with a failed call is being sent to the model.
C4_Witness ==
  /\ threw # EmptyMap
  /\ pc = "request"
  /\ req.kind = "batch"

\* C5: sendMessage never rejects.
C5_NeverRejects == pc # "rejected"

\* C6: the executor is not invoked for a tool that is missing from the
\* registry or from enabledTools, and the call gets the not-available text.
C6_OnlyEnabledToolsRun ==
  InBatch =>
    \A n \in 1..Len(Calls) :
      Calls[n].name \notin (TOOL_REGISTRY \cap enabledTools) =>
        /\ n \notin executed
        /\ \A k \in 1..Len(functionResponses) :
             CallOf(functionResponses[k]) = n =>
               functionResponses[k].response.result = NotAvailableOutput(Calls[n].name)

\* C7: no function response holds a meta field.
C7_NoMetaFedBack ==
  \A k \in 1..Len(functionResponses) :
    "meta" \notin DOMAIN functionResponses[k].response.result

\* C7 witness: a batch is being sent in which one call was executed and one
\* served from the cache, both from results that hold a meta.
C7_Witness ==
  /\ pc = "request"
  /\ req.kind = "batch"
  /\ \E j, k \in 1..Len(functionResponses) :
       /\ CallOf(functionResponses[j]) \in executed
       /\ CallOf(functionResponses[k]) \notin executed
       /\ "meta" \in DOMAIN toolCallCache[CacheKey(Calls[CallOf(functionResponses[j])])]
       /\ "meta" \in DOMAIN toolCallCache[CacheKey(Calls[CallOf(functionResponses[k])])]

\* C8: once a response's calls have resolved, each has had exactly one
\* onToolResult with its own call id, and identical calls carry the same
\* output text.
C8_OneResultPerCall ==
  BatchResolved =>
    /\ \A n \in 1..Len(Calls) :
         Cardinality({ k \in 1..Len(resulted) :
                         resulted[k].callId = <<"call", loopCount, n>> }) = 1
    /\ \A j, k \in 1..Len(resulted) :
         CacheKey(Calls[resulted[j].callId[3]]) = CacheKey(Calls[resulted[k].callId[3]])
           => resulted[j].output = resulted[k].output

AllQuota(errors) == \A k \in 1..Len(errors) : IsQuota(errors[k])

\* C9 as stated: a request that fails for good on rate-limit errors alone has
\* waited 2 s and 4 s and given up on its 4th attempt.
C9_FailsOnFourthAttempt ==
  (req.status = "failed" /\ AllQuota(req.failures)) =>
    /\ Len(req.failures) = 4
    /\ SubSeq(req.waits, 1, 2) = <<2000, 4000>>

\* C9 as amended: after 3 consecutive rate-limit failures the request has
\* waited 2000 ms and 4000 ms, nothing more, and has failed for good on its
\* 3rd attempt, throwing the third error.
C9_FailsOnThirdAttempt ==
  (Len(req.failures) >= 3 /\ AllQuota(SubSeq(req.failures, 1, 3))) =>
    /\ req.status = "failed"
    /\ Len(req.failures) = 3
    /\ req.waits = <<2000, 4000>>
    /\ req.thrown = req.failures[3]

\* C9 witness: three rate-limit failures in a row.
C9_Witness == Len(req.failures) = 3 /\ AllQuota(req.failures)

\* C10: a failure that is no rate-limit error (no '429' in the message, a
\* status other than RESOURCE_EXHAUSTED) ends the request at once: the error
\* is thrown, no wait follows it and no further attempt, so that as the first
\* failure it ends the request after exactly one attempt and no wait.
C10_OtherErrorsRethrown ==
  \A k \in 1..Len(req.failures) :
    (~Includes(req.failures[k].message, "429")
       /\ req.failures[k].status # "RESOURCE_EXHAUSTED")
      => /\ k = Len(req.failures)
         /\ Len(req.waits) = k - 1
         /\ req.status = "failed"
         /\ req.thrown = req.failures[k]

\* C10 witness: the first attempt failed with "Failed to fetch".
C10_Witness ==
  /\ req.status = "failed"
  /\ Len(req.failures) = 1
  /\ ~IsQuota(req.failures[1])
  /\ req.waits = << >>

\* The request for the function responses of the current batch is under way.
BatchInFlight == pc \in {"request", "backoff"} /\ req.kind = "batch"

\* C11: for "Search for recent studies on X and write a summary paragraph in
\* the draft", whenever sendMessage returns, searchWeb and updateDraft have
\* been requested in the turn and onDraftUpdate has given the caller a new,
\* non-empty draft.  Stated here for the returns that no failed request and
\* no used-up loop budget brought about.
C11_SearchedAndWritten ==
  (/\ pc = "done"
   /\ userText = SearchAndWriteText
   /\ req.status # "failed"
   /\ loopCount < MAX_LOOPS)
    => /\ {"searchWeb", "updateDraft"} \subseteq toolsExecuted
       /\ uiDraft # Context.draftContent
       /\ uiDraft # << >>

\* C12: an onToolResult for a call id comes only after the onToolStart for
\* that call id: whenever the result has been notified, so has the start.
C12_StartPrecedesResult ==
  \A k \in 1..Len(resulted) :
    [callId |-> resulted[k].callId, toolName |-> resulted[k].toolName] \in started

\* C12 witness: an executor has settled and its result has been notified,
\* and so has the synthetic result of a tool the registry lacks.
C12_Witness ==
  /\ pc = "await"
  /\ \E j, k \in 1..Len(resulted) :
       /\ resulted[j].callId[3] \in executed
       /\ resulted[k].callId[3] \notin executed

\* C13: while the request that follows a response with function calls is
\* under way, no call of that response is still running, and that one
\* request carries exactly one function response for each of the calls,
\* cache-served calls included, and nothing else.
C13_BatchAfterAllResolved ==
  BatchInFlight =>
    /\ pending = {}
    /\ message.kind = "functionResponses"
    /\ Len(message.body) = Len(Calls)
    /\ \A n \in 1..Len(Calls) :
         Cardinality({ k \in 1..Len(message.body) :
                         /\ message.body[k].id = <<"call", loopCount, n>>
                         /\ message.body[k].name = Calls[n].name }) = 1

\* C13 witness: a batch for two calls is being sent, one of them executed
\* and one served from the cache.
C13_Witness ==
  /\ BatchInFlight
  /\ Len(Calls) = 2
  /\ Cardinality(executed) = 1
  /\ Cardinality(started) = 1

\* C14: when the callback of a call finds the call's key in the turn cache,
\* it invokes no executor and no onToolStart, leaves the cache as it is, and
\* pushes a function response that carries the cached result (its meta apart).
C14_CacheHitReuses ==
  [][ (pc = "dispatch" /\ CacheKey(Calls[nextCall]) \in DOMAIN toolCallCache)
        => LET cached == toolCallCache[CacheKey(Calls[nextCall])]
           IN  /\ executed' = executed
               /\ pending' = pending
               /\ handed' = handed
               /\ started' = started
               /\ toolCallCache' = toolCallCache
               /\ functionResponses' =
                    Append(functionResponses,
                           [name |-> Calls[nextCall].name,
                            id |-> <<"call", loopCount, nextCall>>,
                            response |->
                              [result |-> [f \in DOMAIN cached \ {"meta"} |-> cached[f]]]]) ]_vars

\* C14 witness: a call of the batch was answered without executor and without
\* onToolStart, from a cache entry that an executor of an earlier iteration
\* had filled.
C14_Witness ==
  /\ pc \in {"dispatch", "await"}
  /\ \E k \in 1..Len(functionResponses) :
       LET n == CallOf(functionResponses[k])
       IN  /\ n \notin executed
           /\ \A st \in started : st.callId # <<"call", loopCount, n>>
           /\ Calls[n].name \in TOOL_REGISTRY
           /\ functionResponses[k].response.result.text
                = toolCallCache[CacheKey(Calls[n])].text

\* C15: when the request that sends a batch of function responses or a
\* supervisor instruction fails for good, sendMessage returns in that very
\* step, without throwing, the text of the last response it received, or
\* the generic completion message when that text is empty; and after a
\* return nothing happens any more: no tool runs, no request is sent.
C15_RequestFailureBreaksLoop ==
  /\ [][ (/\ req.kind \in {"batch", "supervisor"}
          /\ req.status # "failed"
          /\ req'.status = "failed")
           => /\ pc' = "done"
              /\ currentResponse' = currentResponse
              /\ finalText' = IF currentResponse.text # << >>
                              THEN currentResponse.text
                              ELSE <<"I have completed the requested actions.">> ]_vars
  /\ [][ pc # "done" ]_vars

\* C15 witness: the batch could not be sent, and sendMessage has returned
\* the generic message in place of the empty text of the last response.
C15_Witness ==
  /\ pc = "done"
  /\ req.kind = "batch"
  /\ req.status = "failed"
  /\ currentResponse.text = << >>
  /\ finalText = <<"I have completed the requested actions.">>

\* C16: every executor of a turn is handed the draftContent, canvasData and
\* tables of the context the Orchestrator was constructed with, also after
\* callbacks of the same turn have reported new content.
C16_ContextFixedAtConstruction ==
  \A n \in DOMAIN handed :
    /\ handed[n].draftContent = Context.draftContent
    /\ handed[n].canvasData = Context.canvasData
    /\ handed[n].tables = Context.tables

\* C16 witness: onDraftUpdate and onCanvasUpdate have changed the caller's
\* draft and canvas in earlier iterations, and an executor dispatched after
\* that is running.
C16_Witness ==
  /\ uiDraft # Context.draftContent
  /\ uiCanvas # Context.canvasData
  /\ hooked = EmptyMap
  /\ pending # {}
  /\ pending \subseteq DOMAIN handed

\* C17: whenever an executed updateDraft returns a result whose meta holds a
\* content, the empty string included, onDraftUpdate is called with that
\* content; likewise onCanvasUpdate for the canvasData of generateCanvas and
\* onTablesUpdate for the tables of manageTables.
C17_HookForEveryContent ==
  \A k \in 1..Len(resulted) :
    LET r == resulted[k]
        n == r.callId[3]
        Hooked(hook, value) ==
          n \in DOMAIN hooked /\ hooked[n].hook = hook /\ hooked[n].value = value
    IN  (n \in executed /\ n \notin DOMAIN threw /\ "meta" \in DOMAIN r) =>
          /\ (r.toolName = "updateDraft" /\ "content" \in DOMAIN r.meta)
               => Hooked("onDraftUpdate", r.meta.content)
          /\ (r.toolName = "generateCanvas" /\ "canvasData" \in DOMAIN r.meta)
               => Hooked("onCanvasUpdate", r.meta.canvasData)
          /\ (r.toolName = "manageTables" /\ "tables" \in DOMAIN r.meta)
               => Hooked("onTablesUpdate", r.meta.tables)

\* C18: the context handed to an executor holds the image-generation mode
\* and the image model of the context given at construction, and generateImage
\* runs in that mode: configured as 'prompt_only', it returns prompts and
\* generates no image.
C18_ImageSettingsHanded ==
  /\ \A n \in DOMAIN handed :
       /\ "imageGenerationMode" \in DOMAIN handed[n]
       /\ "imageModel" \in DOMAIN handed[n]
       /\ handed[n].imageGenerationMode = Context.imageGenerationMode
       /\ handed[n].imageModel = Context.imageModel
  /\ \A k \in 1..Len(resulted) :
       (resulted[k].toolName = "generateImage" /\ Context.imageGenerationMode = "prompt_only")
         => "meta" \notin DOMAIN resulted[k]

\* The required tools that no function call of the turn has named yet.
MissingRequired ==
  { requiredTools[j] : j \in 1..Len(requiredTools) } \ toolsExecuted

\* An iteration of the loop, or the loop's end, is about to deal with a
\* text-only response while required tools are missing.
TextOnlyWithMissing == pc = "loop" /\ Len(Calls) = 0 /\ MissingRequired # {}

\* One supervisor intervention: one onToolStart with a synthetic id for one
\* missing tool, one instruction that names that tool and no other, one
\* request to the model; no tool runs.
Intervention ==
  /\ \E t \in MissingRequired :
       /\ started' \ started
            = { [callId |-> <<"supervisor", loopCount'>>, toolName |-> t] }
       /\ message'.kind = "supervisor"
       /\ { message'.body[j] : j \in 1..Len(message'.body) } \cap TOOL_REGISTRY = {t}
  /\ loopCount' = loopCount + 1
  /\ pc' = "request"
  /\ req' = NewRequest("supervisor")
  /\ UNCHANGED <<toolsExecuted, toolCallCache, executed, pending, functionResponses, resulted>>

\* C19 as stated: each text-only response with required tools missing
\* triggers one supervisor intervention.
C19_EveryTextResponseIntervenes ==
  [][ TextOnlyWithMissing => Intervention ]_vars

\* C19 as amended: a text-only response with required tools missing that one
\* of the MAX_LOOPS iterations deals with triggers exactly one intervention,
\* and one that arrives when the iterations are used up triggers none: the
\* turn returns.  The loop goes on when the instruction has been answered.
\* With k required tools and a model that answers text unless told otherwise
\* and obeys each instruction, the turn completes after 2k + 1 iterations: k
\* interventions, the k batches that obey them, and the final text.
C19_InterventionWithinBudget ==
  /\ [][ (TextOnlyWithMissing /\ loopCount < MAX_LOOPS) => Intervention ]_vars
  /\ [][ (TextOnlyWithMissing /\ loopCount >= MAX_LOOPS)
           => (pc' = "done" /\ started' = {} /\ req' = req) ]_vars
  /\ [][ (pc = "request" /\ req.kind = "supervisor" /\ req'.status = "resolved")
           => (pc' = "loop" /\ loopCount' = loopCount) ]_vars
  /\ []( (obedient /\ pc = "done" /\ req.status # "failed")
           => (MissingRequired = {} /\ loopCount = 2 * Len(requiredTools) + 1) )

\* C19 witness: four required tools, each forced in its turn on a model
\* that obeys, and the turn complete.
C19_Witness ==
  /\ obedient
  /\ pc = "done"
  /\ req.status # "failed"
  /\ Len(requiredTools) = 4
  /\ loopCount = 9

\* C20: the supervisor forces no tool that is missing from enabledTools.
C20_SupervisorForcesOnlyEnabled ==
  \A st \in started :
    st.callId[1] = "supervisor" => st.toolName \in enabledTools


\* C21: a resolved sendMessage yields the text of the model's last response,
\* or the generic completion message when that text is empty; it never
\* yields the empty string.
C21_FinalTextNeverEmpty ==
  pc = "done" =>
    /\ finalText # << >>
    /\ finalText = IF currentResponse.text # << >>
                   THEN currentResponse.text
                   ELSE <<"I have completed the requested actions.">>

\* The model answered the first request with an empty text, nothing was
\* required, and the turn resolved after its one iteration.
C21_Witness ==
  /\ pc = "done"
  /\ loopCount = 1
  /\ currentResponse.text = << >>
  /\ finalText = <<"I have completed the requested actions.">>


\* C22: the required-tool set is derived from keyword matches on the
\* lowercased user text: updateDraft iff it contains draft, write, paper or
\* report; generateCanvas iff canvas, diagram, graph, map or visualize;
\* deepReason iff reason, deep, think or plan; generateImage iff (create or
\* generate) and (image, picture or photo); no other tool is required.
C22_RequiredToolsByKeyword ==
  pc # "idle" =>
    LET required == { requiredTools[k] : k \in 1..Len(requiredTools) }
        Has(w)   == w \in userText
    IN  /\ "updateDraft" \in required <=>
              Has("draft") \/ Has("write") \/ Has("paper") \/ Has("report")
        /\ "generateCanvas" \in required <=>
              Has("canvas") \/ Has("diagram") \/ Has("graph") \/ Has("map")
                \/ Has("visualize")
        /\ "deepReason" \in required <=>
              Has("reason") \/ Has("deep") \/ Has("think") \/ Has("plan")
        /\ "generateImage" \in required <=>
              /\ Has("create") \/ Has("generate")
              /\ Has("image") \/ Has("picture") \/ Has("photo")
        /\ required \subseteq
              {"updateDraft", "generateCanvas", "deepReason", "generateImage"}

\* A text past intent detection in which 'create' and 'photo' occur: a
\* picture is required and nothing else.
C22_Witness ==
  /\ pc = "request"
  /\ userText = {"create", "photo"}
  /\ requiredTools = <<"generateImage">>


\* C23: while a turn started by handleSendMessage is unresolved, no second
\* sendMessage is started on the same AgentOrchestrator instance, whether
\* by the send button, by Enter or by a finished voice recording.
C23_OneTurnPerInstance ==
  \A t \in turns : \A u \in turns : t.instance = u.instance => t.id = u.id


\* An updateDraft call in patch mode whose search_text does not occur in the
\* draft of the context.
PatchMiss(call) ==
  /\ call.name = "updateDraft"
  /\ Field(call.args, "mode") = "patch"
  /\ HasField(call.args, "search_text")
  /\ Field(call.args, "search_text") # ""
  /\ \A k \in 1..Len(Context.draftContent) :
       Context.draftContent[k] # Field(call.args, "search_text")

\* C24: when updateDraft runs in patch mode with a search_text that does not
\* occur in the context's draft, it returns an error text without meta,
\* onDraftUpdate is not invoked and the caller's draft stays unchanged.
C24_PatchMissLeavesDraft ==
  [][ \A n \in pending \ pending' :
        (pc = "await" /\ PatchMiss(Calls[n])) =>
          /\ Len(resulted') = Len(resulted) + 1
          /\ LET r == resulted'[Len(resulted')]
             IN  /\ r.callId = <<"call", loopCount, n>>
                 /\ r.output = <<"Error: Could not find the exact text segment to patch.">>
                 /\ "meta" \notin DOMAIN r
          /\ n \notin DOMAIN hooked'
          /\ uiDraft' = uiDraft ]_vars

\* A patch that missed has been reported, in a turn where an earlier patch
\* had changed the caller's draft.
C24_Witness ==
  /\ pc = "await"
  /\ uiDraft # Context.draftContent
  /\ \E k \in 1..Len(resulted) :
       /\ PatchMiss(Calls[resulted[k].callId[3]])
       /\ "meta" \notin DOMAIN resulted[k]


\* C25: every call id announced through onToolStart during a turn, the
\* synthetic supervisor ids included, receives exactly one onToolResult with
\* the same call id before sendMessage returns.  The notifications of an
\* iteration are final when the next response arrives or the turn ends: no
\* later iteration reports on an earlier id.
C25_EveryStartGetsOneResult ==
  [][ (started # {} /\ started' = {}) =>
        \A s \in started :
          Cardinality({ k \in 1..Len(resulted) : resulted[k].callId = s.callId }) = 1
    ]_vars


\* The tools named by the function calls dispatched so far in the turn.  Once
\* a batch is over, each of its calls has its entry in the turn cache.
DispatchedTools == { key[1] : key \in DOMAIN toolCallCache }

\* C26: once a function call naming a required tool has been dispatched in
\* the turn, the supervisor never forces that tool again, also when the
\* executor threw, returned an error text or was served from the cache.
C26_DispatchedNeverForced ==
  [][ (pc = "loop" /\ message'.kind = "supervisor") =>
        /\ message'.body[2] \notin DispatchedTools
        /\ \A s \in started' : s.toolName \notin DispatchedTools ]_vars

\* The supervisor moves on to generateImage after deepReason, which was
\* required too, was dispatched and its executor threw.
C26_Witness ==
  /\ pc = "request"
  /\ message.kind = "supervisor"
  /\ message.body[2] = "generateImage"
  /\ \E key \in DOMAIN toolCallCache :
       /\ key[1] = "deepReason"
       /\ toolCallCache[key].text = <<"Error executing tool: ", "failed">>
  /\ \E k \in 1..Len(requiredTools) : requiredTools[k] = "deepReason"


\* C27: whatever the model answers, a turn runs at most 15 loop iterations,
\* tool batches and supervisor interventions counted together, makes at most
\* 16 requests to the model, retries not counted, and once the loop is
\* entered it returns.
C27_BoundedTurnReturns ==
  /\ [](loopCount <= 15 /\ modelRequests <= 16)
  /\ [](modelRequests <= loopCount + 1)
  /\ (pc = "loop" ~> pc = "done")

\* A model that never calls the required tool: 15 supervisor interventions,
\* 16 requests, and the turn has returned.
C27_Witness ==
  /\ pc = "done"
  /\ requiredTools # << >>
  /\ toolsExecuted = {}
  /\ loopCount = 15
  /\ modelRequests = 16


\* manageTables has executed 'create' with these arguments in this turn and
\* returned the new list of tables.
Created(args) ==
  LET key == CacheKey(Call("manageTables", args))
  IN  key \in DOMAIN toolCallCache /\ "meta" \in DOMAIN toolCallCache[key]

\* C28: once manageTables has successfully executed 'create' for two
\* distinct tables in a turn, the tables list last passed to onTablesUpdate
\* contains both new tables together with the tables of the context.
C28_BothCreatedTablesReported ==
  (Created(CreateTableArgs) /\ Created(CreateMethodsArgs)) =>
    LET names == { uiTables[k].name : k \in 1..Len(uiTables) }
    IN  /\ {"Results", "Methods"} \subseteq names
        /\ \A k \in 1..Len(Context.tables) : Context.tables[k].name \in names


\* C29: for every sequence of failures of the wrapped operation,
\* _retryRequest and retryOperation make the same number of attempts, wait
\* the same delays between them, none after the final failed attempt, and
\* end with the same outcome.
C29_HelpersAlike ==
  (requestRun # NoRun /\ operationRun # NoRun) =>
    /\ requestRun.attempts = operationRun.attempts
    /\ requestRun.waits = operationRun.waits
    /\ requestRun.kind = operationRun.kind
    /\ requestRun.error = operationRun.error
    /\ \A run \in {requestRun, operationRun} :
         run.kind = "throw" => Len(run.waits) < run.attempts


\* The callback about to start finds its call in the turn cache.
ServedFromCache == pc = "dispatch" /\ CacheKey(Calls[nextCall]) \in DOMAIN toolCallCache

\* C30: a cache-served function call fires no side-effect hook:
\* onDraftUpdate, onCanvasUpdate and onTablesUpdate are invoked only in the
\* branch that executed the tool, never again for a repeated identical call
\* served from the turn cache.
C30_CacheServedFiresNoHook ==
  /\ [](DOMAIN hooked \subseteq executed)
  /\ [][ ServedFromCache =>
           /\ UNCHANGED <<uiDraft, uiCanvas, uiTables, hooked, executed, pending>>
           /\ nextCall \notin executed' ]_vars

\* A repeated identical 'create' has been served from the cache after a
\* later call changed the caller's tables: the list it had reported is not
\* reported again.
C30_Witness ==
  /\ pc \in {"dispatch", "await"}
  /\ \E k \in 1..Len(functionResponses) :
       LET n   == CallOf(functionResponses[k])
           key == CacheKey(Calls[n])
       IN  /\ n \notin executed
           /\ n \notin DOMAIN hooked
           /\ Calls[n].name = "manageTables"
           /\ key \in DOMAIN toolCallCache
           /\ "meta" \in DOMAIN toolCallCache[key]
           /\ toolCallCache[key].meta.tables # uiTables
           /\ uiTables # Context.tables

====
